---- MODULE Spec2Model ----
(***************************************************************************)
(* Model of src/app/main.py: the message search service.                   *)
(*                                                                         *)
(* One process-wide cache (messages_cache) is written by the startup       *)
(* handler and by the refresh-on-empty path of search_messages, and read   *)
(* by every search request.  The handlers run on one asyncio event loop:   *)
(* a handler runs without interruption between two awaits, and the only    *)
(* await of the program that other handlers can interleave with is the     *)
(* upstream GET inside fetch_messages_from_source.                         *)
(*                                                                         *)
(* Python values (decoded JSON, the cache, the records) are modelled as    *)
(* tagged records of one uniform shape; strings are sequences of           *)
(* one-character strings, so that lower(), str() and the substring test    *)
(* are computed and not assumed.                                           *)
(***************************************************************************)
EXTENDS Integers, Sequences, FiniteSets, TLC

(***************************************************************************)
(* Bounds of the model.                                                    *)
(***************************************************************************)
\* number of search requests that may be in flight at the same time
NumReqs == 2
\* largest page number a request asks for
MaxPage == 2
\* largest of the small page sizes a request asks for (besides the limit)
MaxSmallSize == 2

\* Query(20, ge=1, le=100): the validated range of page_size
PageSizeMin == 1
PageSizeMax == 100
\* Query(1, ge=1): the smallest valid page
PageMin == 1

Reqs == 1..NumReqs

(***************************************************************************)
(* Python / JSON values.                                                   *)
(***************************************************************************)
JNull == [t |-> "null", n |-> 0, b |-> FALSE, s |-> <<>>, elems |-> <<>>, fields |-> <<>>]
JNum(x) == [t |-> "num", n |-> x, b |-> FALSE, s |-> <<>>, elems |-> <<>>, fields |-> <<>>]
JBool(x) == [t |-> "bool", n |-> 0, b |-> x, s |-> <<>>, elems |-> <<>>, fields |-> <<>>]
JStr(x) == [t |-> "str", n |-> 0, b |-> FALSE, s |-> x, elems |-> <<>>, fields |-> <<>>]
JList(x) == [t |-> "list", n |-> 0, b |-> FALSE, s |-> <<>>, elems |-> x, fields |-> <<>>]
JObj(x) == [t |-> "dict", n |-> 0, b |-> FALSE, s |-> <<>>, elems |-> <<>>, fields |-> x]

\* a key/value pair of a dict, in insertion order
KV(k, v) == [k |-> k, v |-> v]

\* messages_cache: List[Dict[str, Any]] = []
EmptyList == JList(<<>>)

IsRecord(v) == v.t = "dict"

\* a list all of whose elements are dicts: the declared List[Dict[str, Any]]
IsRecordList(v) == v.t = "list" /\ \A i \in 1..Len(v.elems) : IsRecord(v.elems[i])

\* "key in d" for a dict d
HasKey(d, key) == \E i \in 1..Len(d.fields) : d.fields[i].k = key

\* d[key]: a decoded JSON object keeps the last value of a repeated key
GetKey(d, key) ==
    LET idx == {i \in 1..Len(d.fields) : d.fields[i].k = key}
        last == CHOOSE i \in idx : \A j \in idx : j <= i
    IN  d.fields[last].v

\* the key "items" of the upstream body
ItemsKey == <<"i", "t", "e", "m", "s">>
TotalKey == <<"t", "o", "t", "a", "l">>

\* len(x) is defined for list, str and dict and raises TypeError otherwise
HasLen(v) == v.t \in {"list", "str", "dict"}

PyLen(v) ==
    CASE v.t = "list" -> Len(v.elems)
      [] v.t = "str"  -> Len(v.s)
      [] v.t = "dict" -> Len(v.fields)

\* what "for m in x" yields: the elements of a list, the characters of a
\* str, the keys of a dict
PyIter(v) ==
    CASE v.t = "list" -> v.elems
      [] v.t = "str"  -> [i \in 1..Len(v.s) |-> JStr(<<v.s[i]>>)]
      [] v.t = "dict" -> [i \in 1..Len(v.fields) |-> JStr(v.fields[i].k)]

(***************************************************************************)
(* Strings: str(), lower() and the "in" substring test.                    *)
(***************************************************************************)
UpperLetters ==
    <<"A", "B", "C", "D", "E", "F", "G", "H", "I", "J", "K", "L", "M",
      "N", "O", "P", "Q", "R", "S", "T", "U", "V", "W", "X", "Y", "Z">>
LowerLetters ==
    <<"a", "b", "c", "d", "e", "f", "g", "h", "i", "j", "k", "l", "m",
      "n", "o", "p", "q", "r", "s", "t", "u", "v", "w", "x", "y", "z">>

LowerChar(c) ==
    IF \E i \in 1..Len(UpperLetters) : UpperLetters[i] = c
    THEN LowerLetters[CHOOSE i \in 1..Len(UpperLetters) : UpperLetters[i] = c]
    ELSE c

\* s.lower()
PyLower(s) == [i \in 1..Len(s) |-> LowerChar(s[i])]

DigitChars == <<"0", "1", "2", "3", "4", "5", "6", "7", "8", "9">>

RECURSIVE NatToStr(_)
NatToStr(x) ==
    IF x < 10 THEN <<DigitChars[x + 1]>>
    ELSE NatToStr(x \div 10) \o <<DigitChars[(x % 10) + 1]>>

\* str(value) of a scalar field value (the model's records hold only
\* str, non-negative int, bool and None values)
PyStr(v) ==
    CASE v.t = "str"  -> v.s
      [] v.t = "num"  -> NatToStr(v.n)
      [] v.t = "bool" -> IF v.b THEN <<"T", "r", "u", "e">> ELSE <<"F", "a", "l", "s", "e">>
      [] v.t = "null" -> <<"N", "o", "n", "e">>

\* a in b, for two strings
PyIn(a, b) ==
    \E i \in 0..(Len(b) - Len(a)) : SubSeq(b, i + 1, i + Len(a)) = a

(***************************************************************************)
(* record_matches_query (lines 66-78).  The result is "yes", "no", or      *)
(* "raise" when record.values() does not exist (the element is no dict).   *)
(***************************************************************************)
\* the loop of lines 73-78 comparing with str(value) instead of
\* str(value).lower()
RECURSIVE ScanValues_CaseSensitive(_, _, _)
ScanValues_CaseSensitive(fields, i, q_lower) ==
    IF i > Len(fields) THEN FALSE
    ELSE IF fields[i].v.t = "null"
         THEN ScanValues_CaseSensitive(fields, i + 1, q_lower)
    ELSE IF PyIn(q_lower, PyStr(fields[i].v)) THEN TRUE
    ELSE ScanValues_CaseSensitive(fields, i + 1, q_lower)

\* the for loop of lines 73-78 over the values from position i on
RECURSIVE ScanValues(_, _, _)
ScanValues(fields, i, q_lower) ==
    IF i > Len(fields) THEN FALSE
    ELSE IF fields[i].v.t = "null" THEN ScanValues(fields, i + 1, q_lower)
    ELSE IF PyIn(q_lower, PyLower(PyStr(fields[i].v))) THEN TRUE
    ELSE ScanValues(fields, i + 1, q_lower)

\* lines 66-78 without the "if not q: return True" of lines 70-71
record_matches_query_NoShortcut(record, q) ==
    IF ~IsRecord(record) THEN "raise"
    ELSE IF ScanValues(record.fields, 1, PyLower(q)) THEN "yes"
    ELSE "no"

record_matches_query(record, q) ==
    IF q = <<>> THEN "yes"
    ELSE IF ~IsRecord(record) THEN "raise"
    ELSE IF ScanValues(record.fields, 1, PyLower(q)) THEN "yes"
    ELSE "no"

(***************************************************************************)
(* fetch_messages_from_source (lines 25-48).  An upstream outcome is the   *)
(* way the GET ends: a network failure or timeout, a non-2xx status, a     *)
(* body that is no JSON, or a decoded JSON body.  The result is            *)
(* [ok, val]: ok = FALSE when the call raises.                             *)
(***************************************************************************)
Upstream(arrived, status, decodable, body) ==
    [arrived |-> arrived, status |-> status, decodable |-> decodable, body |-> body]

Raised == [ok |-> FALSE, val |-> JNull]
Returned(v) == [ok |-> TRUE, val |-> v]

\* resp.raise_for_status() (line 33) passes for a 2xx status
IsSuccess(status) == status >= 200 /\ status <= 299

fetch_messages_from_source(o) ==
    IF ~o.arrived THEN Raised
    ELSE IF ~IsSuccess(o.status) THEN Raised
    ELSE IF ~o.decodable THEN Raised
    ELSE IF o.body.t = "dict" /\ HasKey(o.body, ItemsKey)
         THEN LET items == GetKey(o.body, ItemsKey)
              IN  IF HasLen(items) THEN Returned(items) ELSE Raised
    ELSE IF o.body.t = "list" THEN Returned(o.body)
    ELSE Returned(EmptyList)

(***************************************************************************)
(* The search of lines 106-124, as a function of the cache value it reads  *)
(* and of the validated parameters.                                        *)
(***************************************************************************)
\* line 106: the comprehension raises when record_matches_query raises on
\* some element
FilterRaises(c, q) ==
    \E i \in 1..PyLen(c) : record_matches_query(PyIter(c)[i], q) = "raise"

MatchesAt(m, q) == record_matches_query(m, q) = "yes"

\* line 106: filtered = [m for m in messages_cache if record_matches_query(m, q)]
RECURSIVE FilterFrom(_, _, _)
FilterFrom(ms, i, q) ==
    IF i > Len(ms) THEN <<>>
    ELSE IF MatchesAt(ms[i], q) THEN <<ms[i]>> \o FilterFrom(ms, i + 1, q)
    ELSE FilterFrom(ms, i + 1, q)

\* line 106 without its condition: every cached element is kept
Filtered_All(c, q) == PyIter(c)

Filtered(c, q) == FilterFrom(PyIter(c), 1, q)

\* line 108 without its "if total > 0 else 1"
TotalPages_NoElse(total, page_size) == (total + page_size - 1) \div page_size

\* line 108 with floor division plus one for the ceiling
TotalPages_FloorPlusOne(total, page_size) ==
    IF total > 0 THEN (total \div page_size) + 1 ELSE 1

\* line 108
TotalPages(total, page_size) ==
    IF total > 0 THEN (total + page_size - 1) \div page_size ELSE 1

\* line 110 without its "and total > 0"
OutOfRange_NoTotal(page, total_pages, total) == page > total_pages

\* line 110 with total_pages + 1 as the last page
OutOfRange_OnePageMore(page, total_pages, total) ==
    page > total_pages + 1 /\ total > 0

\* line 110
OutOfRange(page, total_pages, total) == page > total_pages /\ total > 0

\* line 113 with a 0-based page
SliceStart_ZeroBased(page, page_size) == page * page_size

\* lines 113-114
SliceStart(page, page_size) == (page - 1) * page_size
SliceEnd(page, page_size) == SliceStart(page, page_size) + page_size

\* xs[start:end] for 0 <= start <= end: the slice is clamped to the length
PySlice(xs, start, end) ==
    LET hi == IF end < Len(xs) THEN end ELSE Len(xs)
    IN  IF start >= hi THEN <<>> ELSE SubSeq(xs, start + 1, hi)

\* line 115
PageResults(filtered, page, page_size) ==
    PySlice(filtered, SliceStart(page, page_size), SliceEnd(page, page_size))

\* results: List[Dict[str, Any]] of SearchResponse (line 22) is validated
\* when the response is built (line 117)
ResponseValid(results) == \A i \in 1..Len(results) : IsRecord(results[i])

\* what a request ends with; failed_at names the line that raised
Outcome(status, failed_at, total, total_pages, results) ==
    [status |-> status, failed_at |-> failed_at, total |-> total,
     total_pages |-> total_pages, results |-> results]

NoOutcome == Outcome(0, "pending", 0, 0, <<>>)

Search(c, q, page, page_size) ==
    IF FilterRaises(c, q) THEN Outcome(500, "filter", 0, 0, <<>>)
    ELSE LET filtered == Filtered(c, q)
             total == Len(filtered)
             total_pages == TotalPages(total, page_size)
             results == PageResults(filtered, page, page_size)
         IN  IF OutOfRange(page, total_pages, total)
             THEN Outcome(400, "page", total, total_pages, <<>>)
             ELSE IF ~ResponseValid(results)
             THEN Outcome(500, "response", total, total_pages, results)
             ELSE Outcome(200, "none", total, total_pages, results)

(***************************************************************************)
(* The inputs: the records the upstream holds, the ways the upstream GET   *)
(* can end, and the parameters of a request.                               *)
(***************************************************************************)
Str_id == <<"i", "d">>
Str_text == <<"t", "e", "x", "t">>
Str_tag == <<"t", "a", "g">>

\* {"id": 1, "text": "Hi W"}
R1 == JObj(<<KV(Str_id, JNum(1)), KV(Str_text, JStr(<<"H", "i", " ", "W">>))>>)
\* {"id": 2, "text": "foo"}
R2 == JObj(<<KV(Str_id, JNum(2)), KV(Str_text, JStr(<<"f", "o", "o">>))>>)
\* {"id": 3, "tag": null, "text": "HI a"}
R3 == JObj(<<KV(Str_id, JNum(3)), KV(Str_tag, JNull),
             KV(Str_text, JStr(<<"H", "I", " ", "a">>))>>)

\* {}: a record without fields
R4 == JObj(<<>>)
\* {"tag": null}: a record with null fields only
R5 == JObj(<<KV(Str_tag, JNull)>>)

AllRecords == <<R1, R2, R3>>

\* {"total": 9, "items": [R1, R2, R3]}: the expected shape, with a total
\* that is not the number of items
BodyItems == JObj(<<KV(TotalKey, JNum(9)), KV(ItemsKey, JList(AllRecords))>>)
\* [R3, R1]: a bare list
BodyList == JList(<<R3, R1>>)
\* {"items": [{}, {"tag": null}]}
BodySparse == JObj(<<KV(ItemsKey, JList(<<R4, R5>>))>>)
\* {"total": 0, "items": []}
BodyNoRecords == JObj(<<KV(TotalKey, JNum(0)), KV(ItemsKey, EmptyList)>>)
\* {"total": 3}: an object without items
BodyNoItems == JObj(<<KV(TotalKey, JNum(3))>>)
\* 7: a scalar
BodyScalar == JNum(7)
\* {"items": 5}
BodyItemsNum == JObj(<<KV(ItemsKey, JNum(5))>>)
\* {"items": "ab"}
BodyItemsStr == JObj(<<KV(ItemsKey, JStr(<<"a", "b">>))>>)
\* {"items": [R1, 5]}
BodyItemsMixed == JObj(<<KV(ItemsKey, JList(<<R1, JNum(5)>>))>>)

Bodies ==
    {BodyItems, BodyList, BodySparse, BodyNoRecords, BodyNoItems, BodyScalar,
     BodyItemsNum, BodyItemsStr, BodyItemsMixed}

\* the GET got no response
NoUpstream == Upstream(FALSE, 0, FALSE, JNull)

\* the upstream outcomes: no response (network failure or the 10 s
\* timeout), a 503 carrying a well-formed body, a 200 whose body is no
\* JSON, and a 200 with each of the bodies
Upstreams ==
    {NoUpstream,
     Upstream(TRUE, 503, TRUE, BodyItems),
     Upstream(TRUE, 200, FALSE, JNull)}
    \cup {Upstream(TRUE, 200, TRUE, b) : b \in Bodies}

\* q: "", "hi" and "HI" (match the texts of R1 and R3), "zz" (matches
\* nothing), "3" (matches the id of R3), "none" (str(None).lower(), the
\* rendering of the null fields of R3 and R5)
Queries ==
    {<<>>, <<"h", "i">>, <<"H", "I">>, <<"z", "z">>, <<"3">>,
     <<"n", "o", "n", "e">>}
\* page: 0 is below the validated minimum
Pages == 0..MaxPage
\* page_size: 0 and 101 are outside the validated range
PageSizes == (0..MaxSmallSize) \cup {PageSizeMax, PageSizeMax + 1}

\* line 85 without its le=100
ParamsValid_NoUpper(page, page_size) ==
    page >= PageMin /\ page_size >= PageSizeMin

\* Query(1, ge=1) and Query(20, ge=1, le=100) (lines 84-85)
ParamsValid(page, page_size) ==
    page >= PageMin /\ page_size >= PageSizeMin /\ page_size <= PageSizeMax

(***************************************************************************)
(* State.                                                                  *)
(***************************************************************************)
VARIABLES
    messages_cache,  \* the global of line 13
    startup,         \* position of startup_event: "init", "fetching", "done"
    startup_fetches, \* number of fetches startup_event has started
    req,             \* per request slot: position, parameters, locals, outcome
    last             \* the fetch that completed last: who awaited it, its result

vars == <<messages_cache, startup, startup_fetches, req, last>>

\* a slot with no request in it
Idle ==
    [pc |-> "idle", q |-> <<>>, page |-> 0, page_size |-> 0,
     saw_empty |-> FALSE, fetches |-> 0, own |-> Raised,
     searched |-> EmptyList, out |-> NoOutcome]

\* who = 0 is startup_event, who = r is the request in slot r; o is the
\* upstream outcome the fetch met and res what the fetch made of it
LastFetch(who, o, res) == [who |-> who, o |-> o, res |-> res]


Init ==
    /\ messages_cache = EmptyList
    /\ startup = "init"
    /\ startup_fetches = 0
    /\ req = [r \in Reqs |-> Idle]
    /\ last = LastFetch(-1, NoUpstream, Raised)

\* the check of line 96 left out: every request refetches
CacheIsEmpty_Always(c) == TRUE

\* "not messages_cache" (line 96)
CacheIsEmpty(c) == PyLen(c) = 0

\* startup_event without its "global messages_cache": the assignment makes
\* a local and the global keeps its initial value
StartupStore_NoGlobal(res) == EmptyList

\* lines 58-63: what startup_event assigns to messages_cache
StartupStore(res) == IF res.ok THEN res.val ELSE EmptyList

\* the cache filled element by element into the shared list, the last
\* element not yet appended when the search reads it
RefreshStore_Partial(res) ==
    IF res.ok /\ res.val.t = "list" /\ Len(res.val.elems) > 0
    THEN JList(SubSeq(res.val.elems, 1, Len(res.val.elems) - 1))
    ELSE IF res.ok THEN res.val ELSE EmptyList

\* a refresh that keeps a cache another request has filled meanwhile
RefreshStore_FirstWins(res) ==
    IF CacheIsEmpty(messages_cache)
    THEN (IF res.ok THEN res.val ELSE EmptyList)
    ELSE messages_cache

\* a refresh whose except branch leaves the cache alone (no line 103)
RefreshStore_KeepOnFail(res) == IF res.ok THEN res.val ELSE messages_cache

\* a refresh that appends what it fetched to the shared list
RefreshStore_Extend(res) ==
    IF res.ok /\ res.val.t = "list" /\ messages_cache.t = "list"
    THEN JList(messages_cache.elems \o res.val.elems)
    ELSE IF res.ok THEN res.val ELSE EmptyList

\* lines 98-103: what the refresh of search_messages assigns
RefreshStore(res) == IF res.ok THEN res.val ELSE EmptyList

(***************************************************************************)
(* startup_event (lines 51-63), split at its await.                        *)
(***************************************************************************)
StartupBegin ==
    /\ startup = "init"
    /\ startup' = "fetching"
    /\ startup_fetches' = startup_fetches + 1
    /\ UNCHANGED <<messages_cache, req, last>>

StartupFetchReturn(o) ==
    /\ startup = "fetching"
    /\ LET res == fetch_messages_from_source(o)
       IN  /\ messages_cache' = StartupStore(res)
           /\ last' = LastFetch(0, o, res)
    /\ startup' = "done"
    /\ UNCHANGED <<startup_fetches, req>>

(***************************************************************************)
(* search_messages (lines 81-124), split at its await.  Requests are       *)
(* served once the startup handler has returned.                           *)
(***************************************************************************)
\* the parameters fail validation: the handler body does not run
SearchRejected(r, q, page, page_size) ==
    /\ startup = "done"
    /\ req[r].pc = "idle"
    /\ ~ParamsValid(page, page_size)
    /\ req' = [req EXCEPT ![r] =
                 [Idle EXCEPT !.pc = "done", !.q = q, !.page = page,
                              !.page_size = page_size,
                              !.out = Outcome(422, "validation", 0, 0, <<>>)]]
    /\ UNCHANGED <<messages_cache, startup, startup_fetches, last>>

\* the cache is not empty at line 96: lines 106-124 run at once
SearchCached(r, q, page, page_size) ==
    /\ startup = "done"
    /\ req[r].pc = "idle"
    /\ ParamsValid(page, page_size)
    /\ ~CacheIsEmpty(messages_cache)
    /\ req' = [req EXCEPT ![r] =
                 [Idle EXCEPT !.pc = "done", !.q = q, !.page = page,
                              !.page_size = page_size,
                              !.searched = messages_cache,
                              !.out = Search(messages_cache, q, page, page_size)]]
    /\ UNCHANGED <<messages_cache, startup, startup_fetches, last>>

\* the refresh with a blocking HTTP client in place of "await client.get":
\* the event loop runs no handler while a fetch is in flight
SearchRefetch_Blocking(r, q, page, page_size) ==
    /\ startup = "done"
    /\ req[r].pc = "idle"
    /\ \A other \in Reqs : req[other].pc # "fetching"
    /\ ParamsValid(page, page_size)
    /\ CacheIsEmpty(messages_cache)
    /\ req' = [req EXCEPT ![r] =
                 [Idle EXCEPT !.pc = "fetching", !.q = q, !.page = page,
                              !.page_size = page_size, !.saw_empty = TRUE,
                              !.fetches = 1]]
    /\ UNCHANGED <<messages_cache, startup, startup_fetches, last>>

\* the cache is empty at line 96: the handler awaits the fetch (line 99)
SearchRefetch(r, q, page, page_size) ==
    /\ startup = "done"
    /\ req[r].pc = "idle"
    /\ ParamsValid(page, page_size)
    /\ CacheIsEmpty(messages_cache)
    /\ req' = [req EXCEPT ![r] =
                 [Idle EXCEPT !.pc = "fetching", !.q = q, !.page = page,
                              !.page_size = page_size, !.saw_empty = TRUE,
                              !.fetches = 1]]
    /\ UNCHANGED <<messages_cache, startup, startup_fetches, last>>

\* the refresh under a lock that a request gets only when no other fetch
\* is in flight: the handler resumes after the other fetches are over
SearchFetchReturn_AfterOthers(r, o) ==
    /\ req[r].pc = "fetching"
    /\ \A other \in Reqs \ {r} : req[other].pc # "fetching"
    /\ LET res == fetch_messages_from_source(o)
           stored == RefreshStore(res)
       IN  /\ messages_cache' = stored
           /\ last' = LastFetch(r, o, res)
           /\ req' = [req EXCEPT ![r].pc = "done", ![r].own = res,
                                 ![r].searched = stored,
                                 ![r].out = Search(stored, req[r].q, req[r].page,
                                                   req[r].page_size)]
    /\ UNCHANGED <<startup, startup_fetches>>

\* the fetch of line 99 returns or raises; lines 99-124 run without a
\* further await
SearchFetchReturn(r, o) ==
    /\ req[r].pc = "fetching"
    /\ LET res == fetch_messages_from_source(o)
           stored == RefreshStore(res)
       IN  /\ messages_cache' = stored
           /\ last' = LastFetch(r, o, res)
           /\ req' = [req EXCEPT ![r].pc = "done", ![r].own = res,
                                 ![r].searched = stored,
                                 ![r].out = Search(stored, req[r].q, req[r].page,
                                                   req[r].page_size)]
    /\ UNCHANGED <<startup, startup_fetches>>

\* the response has been sent: the slot takes the next request
ResponseSent(r) ==
    /\ req[r].pc = "done"
    /\ req' = [req EXCEPT ![r] = Idle]
    /\ UNCHANGED <<messages_cache, startup, startup_fetches, last>>

\* the steps of the program with requests in the slots rs whose parameters
\* are drawn from qs, ps and zs
Step(rs, qs, ps, zs) ==
    \/ StartupBegin
    \/ \E o \in Upstreams : StartupFetchReturn(o)
    \/ \E r \in rs, q \in qs, page \in ps, page_size \in zs :
          SearchRejected(r, q, page, page_size)
    \/ \E r \in rs, q \in qs, page \in ps, page_size \in zs :
          SearchCached(r, q, page, page_size)
    \/ \E r \in rs, q \in qs, page \in ps, page_size \in zs :
          SearchRefetch(r, q, page, page_size)
    \/ \E r \in rs, o \in Upstreams : SearchFetchReturn(r, o)
    \/ \E r \in rs : ResponseSent(r)

\* NumReqs concurrent requests, all with the query "hi", page_size 1 and a
\* page that is invalid (0), the first, or beyond the last
RaceQueries == {<<"h", "i">>}
RacePages == {PageMin - 1, PageMin, MaxPage + 1}
RaceSizes == {PageSizeMin}

Next == Step(Reqs, RaceQueries, RacePages, RaceSizes)

Spec == Init /\ [][Next]_vars

\* the upstream GET of request r ends: with a response, or with the
\* timeout of 10 s (line 31) at the latest
FetchEnds(r) == \E o \in Upstreams : SearchFetchReturn(r, o)

\* the concurrent requests, every fetch in flight ending at some time
SpecLive == Init /\ [][Next]_vars /\ \A r \in Reqs : WF_vars(FetchEnds(r))

\* one request at a time, with every combination of the parameters
OneSlot == {1}

NextSearch == Step(OneSlot, Queries, Pages, PageSizes)

SpecSearch == Init /\ [][NextSearch]_vars

(***************************************************************************)
(* Properties.                                                             *)
(***************************************************************************)
\* what a fetch result is as a cache value: its complete value, or the
\* empty list when the fetch raised
Complete(res) == IF res.ok THEN res.val ELSE EmptyList

\* the empty values of Python: [], "" and {}
EmptyValues == {EmptyList, JStr(<<>>), JObj(<<>>)}

\* request r takes its parameters and runs the handler body in this step
Starts(r) ==
    /\ req[r].pc = "idle"
    /\ req'[r].pc # "idle"
    /\ req'[r].out.status # 422

\* the search of lines 106-124 of request r runs in this step
Searches(r) ==
    /\ req[r].pc # "done"
    /\ req'[r].pc = "done"
    /\ req'[r].out.status # 422

\* C1: whatever the interleaving of the startup load and of the requests,
\* the cache is at every moment the empty sequence or the complete result
\* of one fetch (the one that completed last), and the sequence a search
\* filters is that value: never a prefix, a partial fill or a mix.
C1_CacheWhole ==
    messages_cache = (IF last.who >= 0 THEN Complete(last.res) ELSE EmptyList)

C1_SearchReadsWhole ==
    \A r \in Reqs :
        Searches(r) =>
            /\ req'[r].searched = messages_cache'
            /\ \/ req'[r].searched = EmptyList
               \/ last'.who >= 0 /\ last'.res.ok /\ req'[r].searched = last'.res.val

C1_AtomicSwap == [](C1_CacheWhole) /\ [][C1_SearchReadsWhole]_vars

\* two requests both refreshed and searched two different complete
\* non-empty fetch results
C1_Witness ==
    \E r1, r2 \in Reqs :
        /\ r1 # r2
        /\ req[r1].pc = "done" /\ req[r1].saw_empty /\ req[r1].own.ok
        /\ req[r2].pc = "done" /\ req[r2].saw_empty /\ req[r2].own.ok
        /\ req[r1].searched = JList(AllRecords)
        /\ req[r2].searched = BodyList
        /\ messages_cache = BodyList

\* C2: a request that found the cache empty and whose fetch raised ends
\* with HTTP 200, total = 0, total_pages = 1 and results = [], for every
\* query, page and page_size, and leaves the cache empty.
C2_FailedRefresh ==
    \A r \in Reqs :
        (req[r].pc = "fetching" /\ req'[r].pc = "done" /\ ~req'[r].own.ok) =>
            /\ req'[r].out = Outcome(200, "none", 0, 1, <<>>)
            /\ messages_cache' = EmptyList

C2_DegradesToEmpty == [][C2_FailedRefresh]_vars

\* a request for page 2 whose refresh failed has been answered
C2_Witness ==
    \E r \in Reqs :
        /\ req[r].pc = "done" /\ req[r].saw_empty /\ ~req[r].own.ok
        /\ req[r].page = 2 /\ req[r].q # <<>>
        /\ req[r].out.status = 200
        /\ last.who = r

\* C3: a request fetches if and only if the cache is empty when it checks
\* it, and then once; a request that finds the cache non-empty does not
\* fetch and leaves the cache as it is, whatever its outcome.
C3_StartStep ==
    \A r \in Reqs :
        Starts(r) =>
            /\ (req'[r].fetches = 1) <=> (messages_cache \in EmptyValues)
            /\ (req'[r].pc = "fetching") <=> (messages_cache \in EmptyValues)
            /\ (messages_cache \notin EmptyValues) =>
                   /\ req'[r].fetches = 0
                   /\ messages_cache' = messages_cache
                   /\ last' = last

C3_AtMostOnce ==
    \A r \in Reqs :
        /\ req[r].fetches <= 1
        /\ (req[r].pc = "fetching" /\ req'[r].pc = "done") =>
               req'[r].fetches = req[r].fetches

C3_FetchIffEmpty ==
    [](\A r \in Reqs : req[r].fetches <= 1)
    /\ [][C3_StartStep /\ C3_AtMostOnce]_vars

\* one request was refused page 3 of a non-empty cache without fetching,
\* another one fetched
C3_Witness ==
    \E r1, r2 \in Reqs :
        /\ req[r1].pc = "done" /\ req[r1].out.status = 400
        /\ req[r1].fetches = 0 /\ ~CacheIsEmpty(messages_cache)
        /\ req[r2].pc = "done" /\ req[r2].fetches = 1

\* C4: startup fetches exactly once, before any request is served; when
\* it returns the cache is the fetched sequence, or the empty sequence if
\* the fetch raised, and requests are served in both cases.
C4_StartupLoad ==
    /\ startup_fetches <= 1
    /\ (startup # "init") => startup_fetches = 1
    /\ (\E r \in Reqs : req[r].pc # "idle") => startup = "done"
    /\ (startup = "done" /\ last.who <= 0) =>
           /\ last.who = 0
           /\ messages_cache = (IF last.res.ok THEN last.res.val ELSE EmptyList)
    /\ (startup # "done") => messages_cache = EmptyList

\* startup loaded the three records in upstream order and a request was
\* then served from them
C4_Witness ==
    /\ startup = "done" /\ last.who = 0 /\ last.res.ok
    /\ messages_cache = JList(<<R1, R2, R3>>)
    /\ \E r \in Reqs : req[r].pc = "done" /\ req[r].out.status = 200

\* the startup fetch raised and a request is being served all the same
C4_WitnessFailed ==
    /\ startup = "done" /\ last.who = 0 /\ ~last.res.ok
    /\ \E r \in Reqs : req[r].pc = "fetching"

\* C5: every request that sees the empty cache starts its own fetch, also
\* while another fetch is in flight, and the cache holds what the fetch
\* that completed last wrote.
C5_LastWriteWins ==
    /\ \A r \in Reqs : req[r].saw_empty => req[r].fetches = 1
    /\ (last.who \in Reqs) => messages_cache = Complete(last.res)

\* two requests refreshed at the same time; the first one loaded the
\* records, the second one's fetch raised later and emptied the cache
C5_Witness ==
    \E r1, r2 \in Reqs :
        /\ r1 # r2
        /\ req[r1].pc = "done" /\ req[r1].saw_empty
        /\ req[r1].searched = JList(AllRecords)
        /\ req[r2].pc = "done" /\ req[r2].saw_empty /\ ~req[r2].own.ok
        /\ last.who = r2
        /\ messages_cache = EmptyList

\* the validated parameter values among those the requests use
ValidPages == {p \in Pages : p >= PageMin}
ValidSizes == {z \in PageSizes : z >= PageSizeMin /\ z <= PageSizeMax}

\* the number of elements of c that match q, counted by position
MatchCount(c, q) ==
    Cardinality({i \in 1..PyLen(c) : record_matches_query(PyIter(c)[i], q) = "yes"})

\* ceil(t / z) for t > 0: the least n with n * z >= t
CeilDiv(t, z) == CHOOSE n \in 1..t : n * z >= t /\ (n - 1) * z < t

ExpectedPages(t, z) == IF t > 0 THEN CeilDiv(t, z) ELSE 1

\* request r has run lines 107-115: its filter did not raise
Paged(r) ==
    /\ req[r].pc = "done"
    /\ req[r].out.failed_at \in {"none", "page", "response"}

\* C6: a search asking for a page beyond total_pages gets the 400 if and
\* only if total > 0; with total = 0 every page gets a 200 with no results
\* and total_pages = 1.
C6_OutOfRange ==
    \A r \in Reqs :
        Paged(r) =>
            LET t == MatchCount(req[r].searched, req[r].q)
                tp == ExpectedPages(t, req[r].page_size)
            IN  /\ req[r].out.total = t
                /\ (req[r].page > tp) => ((req[r].out.status = 400) <=> (t > 0))
                /\ (t = 0) => /\ req[r].out.status = 200
                              /\ req[r].out.results = <<>>
                              /\ req[r].out.total_pages = 1

\* "hi" matches two of the cached records and page 2 of page_size 100 is
\* refused
C6_Witness ==
    \E r \in Reqs :
        /\ req[r].pc = "done"
        /\ req[r].searched = JList(AllRecords)
        /\ req[r].q = <<"h", "i">> /\ req[r].page = 2 /\ req[r].page_size = 100
        /\ req[r].out.status = 400 /\ req[r].out.total = 2

\* page 2 of a query that matches nothing in a non-empty cache is served
C6_WitnessNoMatch ==
    \E r \in Reqs :
        /\ req[r].pc = "done"
        /\ req[r].searched = JList(AllRecords)
        /\ req[r].q = <<"z", "z">> /\ req[r].page = 2
        /\ req[r].out.status = 200 /\ req[r].out.total = 0

\* the result slices of pages 1..n of the search of c for q, in page order
RECURSIVE PagesUpTo(_, _, _, _)
PagesUpTo(c, q, page_size, n) ==
    IF n = 0 THEN <<>>
    ELSE PagesUpTo(c, q, page_size, n - 1) \o Search(c, q, n, page_size).results

\* the elements of c that match q, in cache order; xs is the part of the
\* cache not yet looked at
RECURSIVE Matching(_, _)
Matching(xs, q) ==
    IF xs = <<>> THEN <<>>
    ELSE (IF record_matches_query(Head(xs), q) = "yes" THEN <<Head(xs)>> ELSE <<>>)
         \o Matching(Tail(xs), q)

\* C7: for a non-empty cache of records, every query and every page_size,
\* each page 1..total_pages is served and the slices of these pages, put
\* together in page order, are the matching records in cache order.
C7_PagesPartition ==
    (IsRecordList(messages_cache) /\ ~CacheIsEmpty(messages_cache)) =>
        \A q \in Queries, z \in ValidSizes :
            LET n == Search(messages_cache, q, 1, z).total_pages
            IN  /\ \A p \in 1..n : Search(messages_cache, q, p, z).status = 200
                /\ PagesUpTo(messages_cache, q, z, n) = Matching(messages_cache.elems, q)

\* the scenario of the specification: page 2 of page_size 1 for "hi" is
\* the record with id 3
C7_Witness ==
    \E r \in Reqs :
        /\ req[r].pc = "done"
        /\ messages_cache = JList(AllRecords)
        /\ req[r].searched = messages_cache
        /\ req[r].q = <<"h", "i">> /\ req[r].page = 2 /\ req[r].page_size = 1
        /\ req[r].out = Outcome(200, "none", 2, 2, <<R3>>)

\* C8: in every 200 response total_pages is ceil(total / page_size) when
\* total > 0 and 1 when total = 0, total being the number of cached
\* records that match.
C8_TotalPages ==
    \A r \in Reqs :
        (req[r].pc = "done" /\ req[r].out.status = 200) =>
            LET t == MatchCount(req[r].searched, req[r].q)
            IN  /\ req[r].out.total = t
                /\ (t > 0) => /\ req[r].out.total_pages * req[r].page_size >= t
                              /\ (req[r].out.total_pages - 1) * req[r].page_size < t
                /\ (t = 0) => req[r].out.total_pages = 1

\* three matches in pages of two: two pages
C8_Witness ==
    \E r \in Reqs :
        /\ req[r].pc = "done" /\ req[r].out.status = 200
        /\ req[r].page_size = 2
        /\ req[r].out.total = 3 /\ req[r].out.total_pages = 2

\* the upstream outcome o with the field "total" of its body set to n
SetTotal(o, n) ==
    IF o.body.t # "dict" THEN o
    ELSE LET others == SelectSeq(o.body.fields, LAMBDA f : f.k # TotalKey)
         IN  [o EXCEPT !.body = JObj(<<KV(TotalKey, JNum(n))>> \o others)]

\* the fetcher's contract for the upstream outcome o and the result res
FetchContract(o, res) ==
    LET failed == ~o.arrived \/ ~IsSuccess(o.status) \/ ~o.decodable
    IN  /\ res.ok => IsRecordList(res.val)
        /\ failed => ~res.ok
        /\ (~failed /\ o.body.t = "dict" /\ HasKey(o.body, ItemsKey)) =>
               res = Returned(GetKey(o.body, ItemsKey))
        /\ (~failed /\ o.body.t = "list") => res = Returned(o.body)
        /\ (~failed /\ o.body.t = "dict" /\ ~HasKey(o.body, ItemsKey)) =>
               res = Returned(EmptyList)
        /\ (~failed /\ o.body.t \notin {"dict", "list"}) => res = Returned(EmptyList)
        /\ \A n \in {0, 7} : fetch_messages_from_source(SetTotal(o, n)) = res

\* C9: whatever the upstream does, the fetch raises or returns a sequence
\* of records: the value of "items" of an object that has it, a bare
\* sequence itself, [] for any other decodable body; it raises when there
\* is no response, no 2xx status or no decodable body; "total" has no
\* influence.
C9_FetchContract ==
    (last.who >= 0) => FetchContract(last.o, last.res)

\* the same on the upstream outcomes whose "items", or bare body, is a
\* sequence of records: there the contract holds
C9_OnRecordSequences ==
    (/\ last.who >= 0
     /\ (last.o.body.t = "dict" /\ HasKey(last.o.body, ItemsKey)) =>
            IsRecordList(GetKey(last.o.body, ItemsKey))
     /\ (last.o.body.t = "list") => IsRecordList(last.o.body))
    => FetchContract(last.o, last.res)

\* xs is ys with some elements left out, the others in the same order
IsSubsequence(xs, ys) ==
    \E f \in [1..Len(xs) -> 1..Len(ys)] :
        /\ \A i \in 1..Len(xs) : ys[f[i]] = xs[i]
        /\ \A i, j \in 1..Len(xs) : i < j => f[i] < f[j]

\* C10: in every 200 response total is the number of elements of the
\* searched cache that match the query, every result matches, and the
\* results are in the order they have in the cache.
C10_TotalAndOrder ==
    \A r \in Reqs :
        (req[r].pc = "done" /\ req[r].out.status = 200) =>
            /\ req[r].out.total = MatchCount(req[r].searched, req[r].q)
            /\ \A i \in 1..Len(req[r].out.results) :
                   record_matches_query(req[r].out.results[i], req[r].q) = "yes"
            /\ IsSubsequence(req[r].out.results, PyIter(req[r].searched))

\* the scenario of the specification: "hi" finds records 1 and 3 of the
\* three cached ones, the upstream total being 9
C10_Witness ==
    \E r \in Reqs :
        /\ req[r].pc = "done"
        /\ last.o.body = BodyItems
        /\ req[r].searched = JList(AllRecords)
        /\ req[r].q = <<"h", "i">> /\ req[r].page = 1 /\ req[r].page_size = 100
        /\ req[r].out = Outcome(200, "none", 2, 1, <<R1, R3>>)

\* the records of the cache, when it is a list
CachedRecords ==
    IF messages_cache.t = "list"
    THEN {m \in {messages_cache.elems[i] : i \in 1..Len(messages_cache.elems)} :
             IsRecord(m)}
    ELSE {}

\* some non-null value of the record renders, lowercased, to a string that
\* holds the lowercased query
SomeValueHolds(record, q) ==
    \E i \in 1..Len(record.fields) :
        /\ record.fields[i].v # JNull
        /\ PyIn(PyLower(q), PyLower(PyStr(record.fields[i].v)))

\* the record with its fields in the opposite order
Reversed(record) ==
    JObj([i \in 1..Len(record.fields) |-> record.fields[Len(record.fields) + 1 - i]])

\* C11: record_matches_query is true for the empty query; for a non-empty
\* query it is true exactly when the lowercased query is a substring of the
\* lowercased rendering of some non-null field value, whatever the order of
\* the fields; two queries that differ in letter case only agree on every
\* record.
C11_Matching ==
    \A m \in CachedRecords :
        /\ record_matches_query(m, <<>>) = "yes"
        /\ \A q \in Queries \ {<<>>} :
               /\ (record_matches_query(m, q) = "yes") <=> SomeValueHolds(m, q)
               /\ record_matches_query(m, q) \in {"yes", "no"}
               /\ record_matches_query(Reversed(m), q) = record_matches_query(m, q)
        /\ \A q1, q2 \in Queries \ {<<>>} :
               (PyLower(q1) = PyLower(q2)) =>
                   record_matches_query(m, q1) = record_matches_query(m, q2)

\* "HI" found "Hi W" and "HI a" among the three cached records, and
\* "none" found nothing in a cache that holds a null field
C11_Witness ==
    \E r \in Reqs :
        /\ req[r].pc = "done"
        /\ req[r].searched = JList(AllRecords)
        /\ req[r].searched = messages_cache
        /\ req[r].q = <<"H", "I">>
        /\ req[r].out.status = 200 /\ req[r].out.results = <<R1, R3>>
        /\ record_matches_query(R3, <<"n", "o", "n", "e">>) = "no"

\* C12: a search with the empty query counts every element of the cache,
\* records without fields or with null fields only included, and its
\* pages, put together, are the whole cache in upstream order.
C12_EmptyQuery ==
    /\ \A r \in Reqs :
           (Paged(r) /\ req[r].q = <<>>) =>
               /\ req[r].out.total = PyLen(req[r].searched)
               /\ (req[r].out.status = 200) =>
                      req[r].out.results =
                          PySlice(PyIter(req[r].searched),
                                  (req[r].page - 1) * req[r].page_size,
                                  req[r].page * req[r].page_size)
    /\ IsRecordList(messages_cache) =>
           \A z \in ValidSizes :
               LET n == Search(messages_cache, <<>>, 1, z).total_pages
               IN  PagesUpTo(messages_cache, <<>>, z, n) = messages_cache.elems

\* the empty query found both the record without fields and the record
\* with a null field only
C12_Witness ==
    \E r \in Reqs :
        /\ req[r].pc = "done"
        /\ req[r].searched = JList(<<R4, R5>>)
        /\ req[r].q = <<>> /\ req[r].page = 1 /\ req[r].page_size = 1
        /\ req[r].out = Outcome(200, "none", 2, 2, <<R4>>)

\* C13: a request whose page is below 1 or whose page_size is outside
\* [1, 100] is answered with the validation error without running the
\* handler: no fetch is started, also when the cache is empty, and the
\* cache stays as it is.
C13_RejectStep ==
    \A r \in Reqs :
        (/\ req[r].pc = "idle"
         /\ req'[r].pc # "idle"
         /\ \/ req'[r].page < 1
            \/ req'[r].page_size < 1
            \/ req'[r].page_size > 100) =>
            /\ req'[r].pc = "done"
            /\ req'[r].out = Outcome(422, "validation", 0, 0, <<>>)
            /\ req'[r].fetches = 0
            /\ ~req'[r].saw_empty
            /\ messages_cache' = messages_cache
            /\ last' = last

C13_ValidationFirst == [][C13_RejectStep]_vars

\* a request for page_size 101 was rejected while the cache was empty after
\* a failed startup load, and no fetch was started for it
C13_Witness ==
    \E r \in Reqs :
        /\ req[r].pc = "done" /\ req[r].out.status = 422
        /\ req[r].page = 1 /\ req[r].page_size = 101
        /\ req[r].fetches = 0
        /\ messages_cache = EmptyList
        /\ last.who = 0 /\ ~last.res.ok

\* the fetch of request r completes in this step
FetchCompletes(r) == req[r].pc = "fetching" /\ req'[r].pc = "done"

\* C14 as stated: a refresh whose fetch raised leaves the cache as it is,
\* and a cache that is not empty never becomes empty again.
C14_FailedRefreshKeeps ==
    /\ \A r \in Reqs :
           (FetchCompletes(r) /\ ~req'[r].own.ok) => messages_cache' = messages_cache
    /\ (messages_cache \notin EmptyValues) => (messages_cache' \notin EmptyValues)

C14_OnceFilledStaysFilled == [][C14_FailedRefreshKeeps]_vars

\* C14 as amended: the refresh assigns the cache when its fetch completes,
\* the fetched sequence on success and the empty sequence on failure, also
\* over a cache another request has filled meanwhile; no other step
\* changes the cache, so a non-empty cache becomes empty only when a fetch
\* started on an empty cache completes with a failure or an empty sequence.
C14_RefreshStep ==
    /\ \A r \in Reqs :
           FetchCompletes(r) =>
               messages_cache' = (IF req'[r].own.ok THEN req'[r].own.val ELSE EmptyList)
    /\ (messages_cache' # messages_cache) =>
           \/ startup = "fetching" /\ startup' = "done"
           \/ \E r \in Reqs : FetchCompletes(r)
    /\ (messages_cache \notin EmptyValues /\ messages_cache' \in EmptyValues) =>
           \E r \in Reqs :
               /\ FetchCompletes(r)
               /\ req[r].saw_empty
               /\ ~req'[r].own.ok \/ req'[r].own.val \in EmptyValues

C14_RefreshAssigns == [][C14_RefreshStep]_vars

\* one request loaded two records; the fetch of another request, started
\* on the empty cache too, then succeeded with an empty sequence and
\* emptied the cache
C14_Witness ==
    \E r1, r2 \in Reqs :
        /\ r1 # r2
        /\ req[r1].pc = "done" /\ req[r1].saw_empty
        /\ req[r1].searched = BodyList
        /\ req[r2].pc = "done" /\ req[r2].saw_empty
        /\ req[r2].own = Returned(EmptyList)
        /\ last.who = r2
        /\ messages_cache = EmptyList

\* C15: every validated request ends with HTTP 200 or HTTP 400, whatever
\* the upstream outcomes and the interleaving: HTTP 500 is never reached.
C15_No500 ==
    \A r \in Reqs :
        (req[r].pc = "done" /\ req[r].out.status # 422) =>
            req[r].out.status \in {200, 400}

\* the same when every fetch so far returned a sequence of records or
\* raised: then no request ends with HTTP 500
C15_No500OnRecordSequences ==
    \A r \in Reqs :
        (req[r].pc = "done" /\ req[r].out.status # 422 /\ IsRecordList(req[r].searched)) =>
            req[r].out.status \in {200, 400}

\* the handler of a new request in slot r runs: its cache check and, when
\* the cache is not empty, its search
TakesRequest(r) ==
    \E q \in RaceQueries :
        \/ SearchCached(r, q, PageMin, PageSizeMin)
        \/ SearchRefetch(r, q, PageMin, PageSizeMin)

\* C16: while the fetch of one request is in flight the other requests go
\* on: a new request is taken and runs its cache check, a request whose
\* own fetch is in flight completes when that fetch returns, and an
\* answered request sends its response.
C16_NotBlocked ==
    \A r1, r2 \in Reqs :
        (r1 # r2 /\ req[r1].pc = "fetching") =>
            /\ (req[r2].pc = "idle") => ENABLED TakesRequest(r2)
            /\ (req[r2].pc = "fetching") =>
                   ENABLED (\E o \in Upstreams : SearchFetchReturn(r2, o))
            /\ (req[r2].pc = "done") => ENABLED ResponseSent(r2)

\* the fetch of one request is still in flight; the other slot's request
\* was taken after the cache had been filled, found it non-empty and has
\* its 200 response
C16_Witness ==
    \E r1, r2 \in Reqs :
        /\ r1 # r2
        /\ req[r1].pc = "fetching" /\ req[r1].saw_empty
        /\ req[r2].pc = "done" /\ ~req[r2].saw_empty
        /\ req[r2].out.status = 200 /\ req[r2].out.total > 0
        /\ last.who = r2

\* C17: when every fetch ends, every request completes with a response,
\* after one fetch at most and whatever the other requests do: a request
\* is taken into "fetching" or straight into "done", its fetch can end in
\* every state, and a request that is fetching gets to "done".
C17_OneFetchAtMost ==
    \A r \in Reqs :
        /\ req[r].pc \in {"idle", "fetching", "done"}
        /\ req[r].fetches <= 1
        /\ (req[r].pc = "fetching") => ENABLED FetchEnds(r)
        /\ (req[r].pc = "done") => req[r].out.status \in {200, 400, 422, 500}

C17_Completes ==
    /\ [](C17_OneFetchAtMost)
    /\ \A r \in Reqs : (req[r].pc = "fetching") ~> (req[r].pc = "done")

\* both requests awaited a fetch at the same time and both are answered,
\* the second one after a fetch that raised
C17_Witness ==
    \E r1, r2 \in Reqs :
        /\ r1 # r2
        /\ req[r1].pc = "done" /\ req[r1].fetches = 1 /\ req[r1].own.ok
        /\ req[r1].out.status = 400
        /\ req[r2].pc = "done" /\ req[r2].fetches = 1 /\ ~req[r2].own.ok
        /\ req[r2].out.status = 200
        /\ last.who = r2

\* C18: a request that refreshed searches what its own fetch gave, the
\* records it returned or the empty sequence if it raised, whatever the
\* other requests wrote to the cache while that fetch was in flight.
C18_SearchesOwnFetch ==
    \A r \in Reqs :
        (req[r].pc = "done" /\ req[r].saw_empty) =>
            /\ req[r].own.ok => req[r].searched = req[r].own.val
            /\ ~req[r].own.ok => req[r].searched = EmptyList
            /\ req[r].out.failed_at # "filter" =>
                   req[r].out.total =
                       MatchCount(IF req[r].own.ok THEN req[r].own.val ELSE EmptyList,
                                  req[r].q)

\* while the first request's fetch was in flight the second one wrote two
\* records to the cache; the first one then searched the three records of
\* its own fetch
C18_Witness ==
    \E r1, r2 \in Reqs :
        /\ r1 # r2
        /\ req[r2].pc = "done" /\ req[r2].saw_empty
        /\ req[r2].own = Returned(BodyList)
        /\ req[r1].pc = "done" /\ req[r1].saw_empty
        /\ req[r1].own = Returned(JList(AllRecords))
        /\ req[r1].searched = JList(AllRecords)
        /\ last.who = r1

\* the number of results of page p of t matches in pages of z
ExpectedCount(t, p, z) ==
    LET rest == t - (p - 1) * z
    IN  IF rest < z THEN rest ELSE z

\* C19: a 200 response with total > 0 has 1 <= page <= total_pages and
\* min(page_size, total - (page - 1) * page_size) results, one at least;
\* a 200 response has no results only when total = 0.
C19_PageFilled ==
    \A r \in Reqs :
        (req[r].pc = "done" /\ req[r].out.status = 200) =>
            /\ req[r].out.total = MatchCount(req[r].searched, req[r].q)
            /\ (req[r].out.total > 0) =>
                   /\ 1 <= req[r].page
                   /\ req[r].page <= req[r].out.total_pages
                   /\ Len(req[r].out.results) =
                          ExpectedCount(req[r].out.total, req[r].page, req[r].page_size)
                   /\ Len(req[r].out.results) >= 1
            /\ (req[r].out.results = <<>>) => req[r].out.total = 0

\* the last page of three matches in pages of two holds one record
C19_Witness ==
    \E r \in Reqs :
        /\ req[r].pc = "done" /\ req[r].out.status = 200
        /\ req[r].page = 2 /\ req[r].page_size = 2
        /\ req[r].out.total = 3 /\ req[r].out.total_pages = 2
        /\ req[r].out.results = <<R3>>

====
